---- MODULE Spec2Model ----
(***************************************************************************)
(* Model of zarembmj_shell.cpp: a command interpreter whose process()      *)
(* loop reads lines, runs each as a child process, and recursively runs    *)
(* nested scripts through the SERIAL and PARALLEL verbs.                   *)
(*                                                                         *)
(* A std::string is a sequence of one-character strings.  A size_t is an   *)
(* integer read modulo 2^64 in two's complement: a negative number k       *)
(* stands for 2^64 + k, so npos is -1, sums and differences are the        *)
(* ordinary ones, and the unsigned order puts every negative number above  *)
(* every non-negative one.                                                 *)
(***************************************************************************)
EXTENDS Integers, Sequences, FiniteSets, TLC

\* Longest top-level input, in lines.
MaxLines == 2

\* Longest URL given to breakDownURL on its own, in characters after http://.
MaxTail == 4

\* Longest line given to split on its own, in characters.
MaxLen == 4

----------------------------------------------------------------------------
\* Characters and the lines used as inputs.

DQ == "\""
BS == "\\"
SP == " "

IsSpace(c) == c = SP

EXIT     == <<"e", "x", "i", "t">>
SERIAL   == <<"S", "E", "R", "I", "A", "L">>
PARALLEL == <<"P", "A", "R", "A", "L", "L", "E", "L">>
HTTP     == <<"h", "t", "t", "p", ":", "/", "/">>

cmdA  == <<"a">>
cmdBC == <<"b", SP, "c">>
cmdQ  == <<DQ, "b", SP, "c", DQ, SP, "d", BS, DQ>>
cmdX  == <<"e", "x", "i", "t", SP>>
blank == <<>>
cmnt  == <<"#", "x">>
white == <<SP>>

urlOK  == HTTP \o <<"h", "/", "s">>
urlBad == HTTP \o <<"h">>

Serial(ref)   == SERIAL \o <<SP>> \o ref
Parallel(ref) == PARALLEL \o <<SP>> \o ref

\* Local script files: std::ifstream(name) yields these lines; any other
\* name fails to open.
Files ==
    (<<"s">> :> <<cmdA, cmnt, cmdQ>>) @@
    (<<"p">> :> <<cmdA, Serial(<<"s">>), cmdBC, EXIT, cmdA>>) @@
    (<<"u">> :> <<cmdA, Parallel(<<"n">>), Parallel(<<"s">>), Serial(urlBad),
                  cmdBC>>)

\* Remote scripts: the lines the server at <<host, port, path>> answers with.
Web ==
    (<< <<"h">>, <<"8", "0">>, <<"/", "s">> >> :>
        << <<"H">>, <<"\r">>, cmdX, blank, EXIT, cmdA >>)

\* The programs: the status a command terminates with.  Only a succeeds.
Status(args) == IF args # <<>> /\ Head(args) = cmdA THEN 0 ELSE 1

\* The lines the top-level input is drawn from.
TopLines ==
    { blank, cmnt, white, EXIT, cmdA,
      Serial(<<"s">>), Parallel(<<"s">>), Parallel(<<"p">>),
      Parallel(<<"u">>), Serial(<<"n">>), Parallel(urlOK), PARALLEL }

Streams == UNION { [1..n -> TopLines] : n \in 0..MaxLines }

----------------------------------------------------------------------------
\* split: while (is >> std::quoted(word)) argList.push_back(word)

RECURSIVE SkipWs(_, _)
\* The formatted extraction of a character first skips whitespace.
SkipWs(line, i) ==
    IF i <= Len(line) /\ IsSpace(line[i]) THEN SkipWs(line, i + 1) ELSE i

RECURSIVE WordEnd(_, _)
\* is >> word: an unquoted word runs to the next whitespace.
WordEnd(line, i) ==
    IF i <= Len(line) /\ ~IsSpace(line[i]) THEN WordEnd(line, i + 1) ELSE i

RECURSIVE ReadQuotedLiteral(_, _, _)
\* Variant: no escape character; a backslash is kept and the next quote ends
\* the word.
ReadQuotedLiteral(line, i, acc) ==
    IF i > Len(line) THEN [ok |-> FALSE, word |-> acc, next |-> i]
    ELSE IF line[i] = DQ THEN [ok |-> TRUE, word |-> acc, next |-> i + 1]
    ELSE ReadQuotedLiteral(line, i + 1, Append(acc, line[i]))

RECURSIVE ReadQuoted(_, _, _)
\* std::quoted after the opening delimiter: a backslash takes the next
\* character literally, an unescaped quote ends the word, and the end of
\* the line before that fails the extraction.
ReadQuoted(line, i, acc) ==
    IF i > Len(line) THEN [ok |-> FALSE, word |-> acc, next |-> i]
    ELSE IF line[i] = BS
         THEN IF i + 1 > Len(line)
              THEN [ok |-> FALSE, word |-> acc, next |-> i + 1]
              ELSE ReadQuoted(line, i + 2, Append(acc, line[i + 1]))
    ELSE IF line[i] = DQ THEN [ok |-> TRUE, word |-> acc, next |-> i + 1]
    ELSE ReadQuoted(line, i + 1, Append(acc, line[i]))

RECURSIVE splitFrom(_, _)
splitFrom(line, i) ==
    LET j == SkipWs(line, i) IN
    IF j > Len(line) THEN <<>>
    ELSE IF line[j] # DQ
         THEN LET k == WordEnd(line, j)
              IN  <<SubSeq(line, j, k - 1)>> \o splitFrom(line, k)
    ELSE LET r == ReadQuoted(line, j + 1, <<>>)
         IN  IF r.ok THEN <<r.word>> \o splitFrom(line, r.next) ELSE <<>>

split(line) == splitFrom(line, 1)

----------------------------------------------------------------------------
\* std::string operations on size_t positions (0-based).

npos == -1

\* Unsigned a > b.
UGt(a, b) ==
    IF a < 0 THEN (b >= 0 \/ a > b) ELSE (b >= 0 /\ a > b)

Matches(s, pat, p) ==
    /\ p + Len(pat) <= Len(s)
    /\ \A k \in 1..Len(pat) : s[p + k] = pat[k]

\* s.find(pat, from)
find(s, pat, from) ==
    LET hits == { p \in 0..Len(s) : ~UGt(from, p) /\ Matches(s, pat, p) }
    IN  IF hits = {} THEN npos
        ELSE CHOOSE p \in hits : \A q \in hits : p <= q

\* s.substr(pos, n): throws std::out_of_range when pos > size().
substrThrows(s, pos) == UGt(pos, Len(s))

substr(s, pos, n) ==
    LET rest == Len(s) - pos
        len  == IF UGt(n, rest) THEN rest ELSE n
    IN  SubSeq(s, pos + 1, pos + len)

breakDownURL(url) ==
    LET hostStart == find(url, <<"/", "/">>, 0) + 2
        pathStart == find(url, <<"/">>, hostStart)
        portPos   == find(url, <<":">>, hostStart)
        hostEnd   == IF portPos = npos THEN pathStart ELSE portPos
    IN  IF substrThrows(url, hostStart) \/ substrThrows(url, pathStart)
           \/ (portPos # npos /\ substrThrows(url, portPos + 1))
        THEN [ok |-> FALSE, host |-> <<>>, port |-> <<>>, path |-> <<>>]
        ELSE [ok   |-> TRUE,
              host |-> substr(url, hostStart, hostEnd - hostStart),
              port |-> IF portPos # npos
                       THEN substr(url, portPos + 1, pathStart - portPos - 1)
                       ELSE <<"8", "0">>,
              path |-> substr(url, pathStart, npos)]

----------------------------------------------------------------------------
\* State.

VARIABLES
    invs,    \* the activations of process(), in call order: its locals
    stack,   \* the call stack: indices into invs, innermost last
    procs,   \* the ChildProcess objects created so far, in spawn order
    out,     \* what has been written to std::cout
    status,  \* "running", "returned" (main returned), "aborted" (uncaught
             \* exception), "crashed" (out-of-range indexing faulted)
    input,   \* the argument of a helper function called on its own
    result   \* what that call returned, once it has

vars == <<invs, stack, procs, out, status, input, result>>

\* No helper function is being called on its own.
NoCall == [done |-> FALSE, val |-> <<>>]

\* Variant: the child list is shared with the calling activation instead of
\* being a fresh local of each call.
NewInvShared(is, prompt, parallel, from) ==
    [is |-> is, pos |-> 1, prompt |-> prompt, parallel |-> parallel,
     childList |-> IF from = 0 THEN <<>> ELSE invs[from].childList,
     pc |-> "read", cp |-> 0, di |-> 1, sawExit |-> FALSE, from |-> from,
     at |-> IF from = 0 THEN 0 ELSE invs[from].pos]

\* process(is, prompt, parallel) on entry.  from is the activation whose
\* line called it (0 for main) and at is the position of that line.
NewInv(is, prompt, parallel, from) ==
    [is |-> is, pos |-> 1, prompt |-> prompt, parallel |-> parallel,
     childList |-> <<>>, pc |-> "read", cp |-> 0, di |-> 1,
     sawExit |-> FALSE, from |-> from,
     at |-> IF from = 0 THEN 0 ELSE invs[from].pos]

PromptEv(i)       == [t |-> "prompt", inv |-> i, h |-> 0, args |-> <<>>, code |-> 0]
EchoEv(i, h, a)   == [t |-> "echo",   inv |-> i, h |-> h, args |-> a,    code |-> 0]
ReportEv(i, h, c) == [t |-> "report", inv |-> i, h |-> h, args |-> <<>>, code |-> c]

\* main: process(std::cin) with the default prompt and parallel = false.
Init ==
    /\ \E is \in Streams :
           invs = << NewInv(is, <<">", SP>>, FALSE, 0) >>
    /\ stack  = <<1>>
    /\ procs  = <<>>
    /\ out    = <<>>
    /\ status = "running"
    /\ input  = <<>>
    /\ result = NoCall

top == stack[Len(stack)]
F   == invs[top]

Running == status = "running" /\ stack # <<>>

\* std::cout << prompt
Prompted == IF F.prompt # <<>> THEN Append(out, PromptEv(top)) ELSE out

AtEof   == F.pos > Len(F.is)
line    == F.is[F.pos]
argList == split(line)

\* Variant: only the empty line is skipped.
SkippedBlank(l) == l = <<>>

\* line.empty() || line[0] == '#'
Skipped(l) == IF l = <<>> THEN TRUE ELSE l[1] = "#"

\* Variant: only the end of input ends the loop.
LoopEndsAtEof == AtEof

\* The while condition fails: getline hit the end, or the line is "exit".
LoopEnds == IF AtEof THEN TRUE ELSE line = EXIT

IsVerb(w) == w = SERIAL \/ w = PARALLEL

\* The loop body is entered with a line that is tokenized.
Tokenized == Running /\ F.pc = "read" /\ ~LoopEnds /\ ~Skipped(line)

----------------------------------------------------------------------------
\* ChildProcess (ChildProcess.h): forkNexec starts a child, wait blocks until
\* it has terminated and returns its status.  waits counts the calls of
\* wait on the object and waiter is the activation that made the last one.

forkNexec(owner, args) ==
    Append(procs, [owner |-> owner, args |-> args, state |-> "running",
                   code |-> 0, waits |-> 0, waiter |-> 0])

CanWait(h) == procs[h].state = "exited"

Waited(h) == [procs EXCEPT ![h].waits = @ + 1, ![h].waiter = top]

\* A running child terminates on its own, at any time.
ChildExit ==
    /\ status = "running"
    /\ \E h \in 1..Len(procs) :
           /\ procs[h].state = "running"
           /\ procs' = [procs EXCEPT ![h].state = "exited",
                                     ![h].code = Status(procs[h].args)]
    /\ UNCHANGED <<invs, stack, out, status, input, result>>

----------------------------------------------------------------------------
\* process(): one action per way through the loop.

\* The loop ends at end of input or on "exit"; the drain loop follows.
ReadEnd ==
    /\ Running /\ F.pc = "read"
    /\ LoopEnds
    /\ invs' = [invs EXCEPT ![top].pc = "drain",
                            ![top].sawExit = ~AtEof,
                            ![top].pos = IF AtEof THEN @ ELSE @ + 1]
    /\ out' = Prompted
    /\ UNCHANGED <<stack, procs, status, input, result>>

\* A blank line or a comment: continue.
ReadSkip ==
    /\ Running /\ F.pc = "read"
    /\ ~LoopEnds /\ Skipped(line)
    /\ invs' = [invs EXCEPT ![top].pos = @ + 1]
    /\ out' = Prompted
    /\ UNCHANGED <<stack, procs, status, input, result>>

\* Variant: the child is waited on right after the spawn in parallel mode too.
RunGenericSerial(args) ==
    LET h == Len(procs) + 1 IN
    /\ procs' = forkNexec(top, args)
    /\ out' = Append(Prompted, EchoEv(top, h, args))
    /\ invs' = [invs EXCEPT ![top].pos = @ + 1, ![top].pc = "wait",
                            ![top].cp = h]
    /\ UNCHANGED <<stack, status, input, result>>

\* Variant: a nested parallel script puts its child on its caller's childList.
RunGenericOuter(args) ==
    LET h == Len(procs) + 1
        g == IF F.from = 0 THEN top ELSE F.from
    IN
    /\ procs' = forkNexec(top, args)
    /\ out' = Append(Prompted, EchoEv(top, h, args))
    /\ invs' = IF ~F.parallel
               THEN [invs EXCEPT ![top].pos = @ + 1, ![top].pc = "wait",
                                 ![top].cp = h]
               ELSE [[invs EXCEPT ![top].pos = @ + 1]
                         EXCEPT ![g].childList = Append(@, h)]
    /\ UNCHANGED <<stack, status, input, result>>

\* Variant: the child is put on childList in serial mode too.
RunGenericDeferred(args) ==
    LET h == Len(procs) + 1 IN
    /\ procs' = forkNexec(top, args)
    /\ out' = Append(Prompted, EchoEv(top, h, args))
    /\ invs' = [invs EXCEPT ![top].pos = @ + 1,
                            ![top].childList = Append(@, h)]
    /\ UNCHANGED <<stack, status, input, result>>

\* runCommand(args) followed by the serial/parallel branch.
RunGeneric(args) ==
    LET h == Len(procs) + 1 IN
    /\ procs' = forkNexec(top, args)
    /\ out' = Append(Prompted, EchoEv(top, h, args))
    /\ invs' = IF ~F.parallel
               THEN [invs EXCEPT ![top].pos = @ + 1, ![top].pc = "wait",
                                 ![top].cp = h]
               ELSE [invs EXCEPT ![top].pos = @ + 1,
                                 ![top].childList = Append(@, h)]
    /\ UNCHANGED <<stack, status, input, result>>

\* A general command.
Command ==
    /\ Tokenized
    /\ \E args \in {argList} :
           /\ args # <<>> /\ ~IsVerb(args[1])
           /\ RunGeneric(args)

\* Variant: serial mode goes on to the next line without waiting.
WaitSerialNoBlock ==
    /\ Running /\ F.pc = "wait"
    /\ invs' = [invs EXCEPT ![top].pc = "read", ![top].cp = 0]
    /\ UNCHANGED <<stack, procs, status, out, input, result>>

\* Variant: the serial wait does not print the status.
WaitSerialQuiet ==
    /\ Running /\ F.pc = "wait"
    /\ CanWait(F.cp)
    /\ procs' = Waited(F.cp)
    /\ invs' = [invs EXCEPT ![top].pc = "read", ![top].cp = 0]
    /\ UNCHANGED <<stack, status, out, input, result>>

\* Serial mode: cp.wait() and its report, right after the spawn.
WaitSerial ==
    /\ Running /\ F.pc = "wait"
    /\ CanWait(F.cp)
    /\ procs' = Waited(F.cp)
    /\ out' = Append(out, ReportEv(top, F.cp, procs[F.cp].code))
    /\ invs' = [invs EXCEPT ![top].pc = "read", ![top].cp = 0]
    /\ UNCHANGED <<stack, status, input, result>>

\* Variant: the drain walks childList from the back.
DrainReverse ==
    /\ Running /\ F.pc = "drain"
    /\ F.di <= Len(F.childList)
    /\ LET h == F.childList[Len(F.childList) - F.di + 1] IN
           /\ CanWait(h)
           /\ procs' = Waited(h)
           /\ out' = Append(out, ReportEv(top, h, procs[h].code))
    /\ invs' = [invs EXCEPT ![top].di = @ + 1]
    /\ UNCHANGED <<stack, status, input, result>>

\* The loop over childList after the read loop: one wait and report.
Drain ==
    /\ Running /\ F.pc = "drain"
    /\ F.di <= Len(F.childList)
    /\ LET h == F.childList[F.di] IN
           /\ CanWait(h)
           /\ procs' = Waited(h)
           /\ out' = Append(out, ReportEv(top, h, procs[h].code))
    /\ invs' = [invs EXCEPT ![top].di = @ + 1]
    /\ UNCHANGED <<stack, status, input, result>>

\* Variant: process() returns without running the loop over childList.
ReturnEarly ==
    /\ Running /\ F.pc = "drain"
    /\ stack' = SubSeq(stack, 1, Len(stack) - 1)
    /\ invs' = IF F.from = 0
               THEN [invs EXCEPT ![top].pc = "returned"]
               ELSE [invs EXCEPT ![top].pc = "returned",
                                 ![F.from].pc = "read"]
    /\ status' = IF F.from = 0 THEN "returned" ELSE status
    /\ UNCHANGED <<procs, out, input, result>>

\* Variant: a script ended by "exit" ends the loop of its caller too.
ReturnExits ==
    /\ Running /\ F.pc = "drain"
    /\ F.di > Len(F.childList)
    /\ stack' = SubSeq(stack, 1, Len(stack) - 1)
    /\ invs' = IF F.from = 0
               THEN [invs EXCEPT ![top].pc = "returned"]
               ELSE [invs EXCEPT ![top].pc = "returned",
                                 ![F.from].pc = IF F.sawExit THEN "drain"
                                                ELSE "read",
                                 ![F.from].sawExit = F.sawExit]
    /\ status' = IF F.from = 0 THEN "returned" ELSE status
    /\ UNCHANGED <<procs, out, input, result>>

\* process() returns: to the processScript line of its caller, or to main.
Return ==
    /\ Running /\ F.pc = "drain"
    /\ F.di > Len(F.childList)
    /\ stack' = SubSeq(stack, 1, Len(stack) - 1)
    /\ invs' = IF F.from = 0
               THEN [invs EXCEPT ![top].pc = "returned"]
               ELSE [invs EXCEPT ![top].pc = "returned",
                                 ![F.from].pc = "read"]
    /\ status' = IF F.from = 0 THEN "returned" ELSE status
    /\ UNCHANGED <<procs, out, input, result>>

----------------------------------------------------------------------------
\* processScript(fileOrUrl, parallel)

\* Variant: the nested script runs in the mode of its caller.
CallInherit(stream, par) ==
    /\ invs' = Append([invs EXCEPT ![top].pos = @ + 1, ![top].pc = "call"],
                      NewInv(stream, <<>>, F.parallel, top))
    /\ stack' = Append(stack, Len(invs) + 1)
    /\ out' = Prompted
    /\ UNCHANGED <<procs, status, input, result>>

\* process(stream, "", parallel) called from the current line.
Call(stream, par) ==
    /\ invs' = Append([invs EXCEPT ![top].pos = @ + 1, ![top].pc = "call"],
                      NewInv(stream, <<>>, par, top))
    /\ stack' = Append(stack, Len(invs) + 1)
    /\ out' = Prompted
    /\ UNCHANGED <<procs, status, input, result>>

IsRemote(ref) == find(ref, HTTP, 0) = 0

\* Variant: a file that cannot be opened yields its own name as a line.
OpenLocalName(ref) == IF ref \in DOMAIN Files THEN Files[ref] ELSE <<ref>>

\* std::ifstream script(fileOrUrl): a file that cannot be opened reads as
\* end of input.
OpenLocal(ref) == IF ref \in DOMAIN Files THEN Files[ref] ELSE <<>>

RECURSIVE SkipHeaders(_)
\* setupHTTPStream's header loop: read lines up to and including the first
\* empty or "\r" line.
SkipHeaders(resp) ==
    IF resp = <<>> THEN <<>>
    ELSE IF Head(resp) = <<>> \/ Head(resp) = <<"\r">> THEN Tail(resp)
    ELSE SkipHeaders(Tail(resp))

\* client.connect(host, port) and the request: the response lines, or a
\* stream in a failed state when the connection is not made.
Connect(u, up) ==
    IF up /\ <<u.host, u.port, u.path>> \in DOMAIN Web
    THEN Web[<<u.host, u.port, u.path>>] ELSE <<>>

WellFormed == Tokenized /\ Len(argList) >= 2 /\ IsVerb(argList[1])

\* In the three actions below fileOrUrl and parallel are the arguments
\* processScript is called with, argList[1] and argList[0] == "PARALLEL".
ScriptLocal ==
    /\ WellFormed
    /\ \E fileOrUrl \in {argList[2]}, parallel \in {argList[1] = PARALLEL} :
           /\ ~IsRemote(fileOrUrl)
           /\ Call(OpenLocal(fileOrUrl), parallel)

ScriptRemote ==
    /\ WellFormed
    /\ \E fileOrUrl \in {argList[2]}, parallel \in {argList[1] = PARALLEL} :
           /\ IsRemote(fileOrUrl)
           /\ \E u \in {breakDownURL(fileOrUrl)}, up \in BOOLEAN :
                  /\ u.ok
                  /\ Call(SkipHeaders(Connect(u, up)), parallel)

\* url.substr(pathStart) throws std::out_of_range; nothing catches it, so
\* std::terminate ends the program.
ScriptThrows ==
    /\ WellFormed
    /\ \E fileOrUrl \in {argList[2]} :
           /\ IsRemote(fileOrUrl)
           /\ ~breakDownURL(fileOrUrl).ok
    /\ status' = "aborted"
    /\ out' = Prompted
    /\ UNCHANGED <<invs, stack, procs, input, result>>

----------------------------------------------------------------------------
\* Out-of-range operator[] on argList: undefined behaviour.

\* argList[0] of an empty list.  The read faults, or yields garbage that is
\* no verb and the empty list is run as a command.
IndexEmpty ==
    /\ Tokenized
    /\ argList = <<>>
    /\ \/ /\ status' = "crashed"
          /\ out' = Prompted
          /\ UNCHANGED <<invs, stack, procs, input, result>>
       \/ RunGeneric(<<>>)

\* argList[1] of a one-word verb line.  The read faults, or yields garbage
\* that names no file.
IndexNoRef ==
    /\ Tokenized
    /\ Len(argList) = 1 /\ IsVerb(argList[1])
    /\ \/ /\ status' = "crashed"
          /\ out' = Prompted
          /\ UNCHANGED <<invs, stack, procs, input, result>>
       \/ Call(<<>>, argList[1] = PARALLEL)

----------------------------------------------------------------------------
Next ==
    \/ ReadEnd
    \/ ReadSkip
    \/ Command
    \/ WaitSerial
    \/ Drain
    \/ Return
    \/ ScriptLocal
    \/ ScriptRemote
    \/ ScriptThrows
    \/ IndexEmpty
    \/ IndexNoRef
    \/ ChildExit

Spec == Init /\ [][Next]_vars

\* The steps of the shell's one thread.
Interpreter ==
    \/ ReadEnd
    \/ ReadSkip
    \/ Command
    \/ WaitSerial
    \/ Drain
    \/ Return
    \/ ScriptLocal
    \/ ScriptRemote
    \/ ScriptThrows
    \/ IndexEmpty
    \/ IndexNoRef

\* The shell's thread runs whenever it is not blocked in wait(), and every
\* running child terminates.
LiveSpec ==
    /\ Init /\ [][Next]_vars
    /\ WF_vars(Interpreter)
    /\ WF_vars(ChildExit)

----------------------------------------------------------------------------
\* The helper functions called on their own.

Idle ==
    /\ invs = <<>> /\ stack = <<>> /\ procs = <<>> /\ out = <<>>
    /\ status = "idle"
    /\ result = NoCall

RECURSIVE SeqsUpTo(_, _)
\* The sequences over S of length at most n.
SeqsUpTo(S, n) ==
    IF n = 0 THEN { <<>> }
    ELSE LET shorter == SeqsUpTo(S, n - 1)
         IN  shorter \cup { Append(q, c) : q \in shorter, c \in S }

UrlChars == {"h", "8", ":", "/"}
Urls     == { HTTP \o t : t \in SeqsUpTo(UrlChars, MaxTail) }

UrlInit == Idle /\ input \in Urls

\* std::tie(hostname, port, path) = breakDownURL(url)
UrlCall ==
    /\ ~result.done
    /\ result' = [done |-> TRUE, val |-> breakDownURL(input)]
    /\ UNCHANGED <<invs, stack, procs, out, status, input>>

UrlSpec == UrlInit /\ [][UrlCall]_vars

LineChars == {"a", SP, DQ, BS}
Lines     == SeqsUpTo(LineChars, MaxLen)

SplitInit == Idle /\ input \in Lines

\* const StrVec argList = split(line)
SplitCall ==
    /\ ~result.done
    /\ result' = [done |-> TRUE, val |-> split(input)]
    /\ UNCHANGED <<invs, stack, procs, out, status, input>>

SplitSpec == SplitInit /\ [][SplitCall]_vars

----------------------------------------------------------------------------
\* Vocabulary of the properties, stated on the text of the lines and on the
\* output, independently of the operators the actions use.

Invs    == 1..Len(invs)
Handles == 1..Len(procs)

BlankOrComment(l) == IF Len(l) = 0 THEN TRUE ELSE Head(l) = "#"

GenericLine(l) ==
    IF BlankOrComment(l) \/ l = EXIT \/ split(l) = <<>> THEN FALSE
    ELSE split(l)[1] \notin {SERIAL, PARALLEL}

\* A stream of blank lines, comments, exit and generic commands only.
Plain(is) ==
    \A k \in 1..Len(is) : BlankOrComment(is[k]) \/ is[k] = EXIT \/ GenericLine(is[k])

RECURSIVE Generics(_)
\* The argument lists of the generic lines a loop over is dispatches.
Generics(is) ==
    IF is = <<>> THEN <<>>
    ELSE IF Head(is) = EXIT THEN <<>>
    ELSE IF GenericLine(Head(is)) THEN <<split(Head(is))>> \o Generics(Tail(is))
    ELSE Generics(Tail(is))

\* The echoes and reports activation i wrote, in output order.
Ev(i) == SelectSeq(out, LAMBDA e : e.inv = i /\ e.t # "prompt")

EchoAt(h)   == { k \in 1..Len(out) : out[k].t = "echo" /\ out[k].h = h }
ReportAt(h) == { k \in 1..Len(out) : out[k].t = "report" /\ out[k].h = h }

Owned(i) == { h \in Handles : procs[h].owner = i }

\* C1: a serial activation over a stream of N generic commands (and no
\* composite verb) writes echo 1, report 1, echo 2, report 2, ... in line
\* order, each report being that of the command echoed just before it, and
\* has written exactly N of each when it returns.
SerialAlternates ==
    \A i \in Invs :
        (~invs[i].parallel /\ Plain(invs[i].is)) =>
            LET ev == Ev(i)
                g  == Generics(invs[i].is)
            IN  /\ Len(ev) <= 2 * Len(g)
                /\ \A k \in 1..Len(ev) :
                       IF k % 2 = 1
                       THEN /\ ev[k].t = "echo"
                            /\ ev[k].args = g[(k + 1) \div 2]
                       ELSE /\ ev[k].t = "report"
                            /\ ev[k].h = ev[k - 1].h
                            /\ ev[k].code = procs[ev[k].h].code
                /\ invs[i].pc = "returned" => Len(ev) = 2 * Len(g)

SerialAlternatesWitness ==
    \E i \in Invs :
        /\ ~invs[i].parallel /\ Plain(invs[i].is)
        /\ invs[i].pc = "returned"
        /\ Len(Generics(invs[i].is)) >= 2
        /\ Len(Ev(i)) = 4

\* C2: a parallel activation over a stream of N generic commands (and no
\* composite verb) writes its N echoes in line order and then its N reports
\* in the same order, whatever order the children terminate in, and waits on
\* none of its children while its read loop is still running.
ParallelFifo ==
    \A i \in Invs :
        (invs[i].parallel /\ Plain(invs[i].is)) =>
            LET ev == Ev(i)
                g  == Generics(invs[i].is)
                ne == Cardinality({ k \in 1..Len(ev) : ev[k].t = "echo" })
            IN  /\ ne <= Len(g)
                /\ \A k \in 1..Len(ev) :
                       IF k <= ne
                       THEN /\ ev[k].t = "echo"
                            /\ ev[k].args = g[k]
                       ELSE /\ ev[k].t = "report"
                            /\ ev[k].h = ev[k - ne].h
                            /\ ev[k].code = procs[ev[k].h].code
                /\ invs[i].pc = "read" =>
                       /\ Len(ev) = ne
                       /\ \A h \in Owned(i) : procs[h].waits = 0
                /\ invs[i].pc = "returned" => Len(ev) = 2 * Len(g)

\* The second child has terminated, the first is still running, and the
\* drain is blocked on the first.
ParallelFifoWitness ==
    \E i \in Invs :
        /\ invs[i].parallel /\ Plain(invs[i].is)
        /\ invs[i].pc = "drain" /\ invs[i].di = 1
        /\ Len(invs[i].childList) = 2
        /\ Len(Ev(i)) = 2
        /\ procs[invs[i].childList[1]].state = "running"
        /\ procs[invs[i].childList[2]].state = "exited"

\* C3: every dispatched command has exactly one echo and at most one report,
\* the report after the echo; a returned activation has reported each of its
\* commands; and when main returns there are as many reports as echoes.
OneEchoOneReport ==
    /\ \A h \in Handles :
           /\ Cardinality(EchoAt(h)) = 1
           /\ Cardinality(ReportAt(h)) <= 1
           /\ \A e \in EchoAt(h), r \in ReportAt(h) : e < r
           /\ invs[procs[h].owner].pc = "returned" =>
                  Cardinality(ReportAt(h)) = 1
    /\ \A k \in 1..Len(out) : out[k].t # "prompt" => out[k].h \in Handles
    /\ status = "returned" =>
           Cardinality({ k \in 1..Len(out) : out[k].t = "report" })
               = Cardinality({ k \in 1..Len(out) : out[k].t = "echo" })

\* main has returned after a script nested two deep ran commands.
OneEchoOneReportWitness ==
    /\ status = "returned"
    /\ \E i \in Invs :
           /\ invs[i].from > 1
           /\ Owned(i) # {}
           /\ Owned(invs[i].from) # {}

\* C4: every ChildProcess is waited on at most once and only by the
\* activation that spawned it: a serial activation waits right after the
\* spawn, a parallel one only in its drain, and a returned activation has
\* waited on every child it spawned.
WaitedOnce ==
    \A h \in Handles :
        LET p == procs[h]
            o == invs[p.owner]
        IN  /\ p.waits <= 1
            /\ p.waits = 1 => p.waiter = p.owner
            /\ (~o.parallel /\ p.waits = 0) => (o.pc = "wait" /\ o.cp = h)
            /\ (o.parallel /\ p.waits = 1) => o.pc \in {"drain", "returned"}
            /\ o.pc = "returned" => p.waits = 1

\* A parallel activation returned with two children and a nested serial
\* activation in between returned with its own.
WaitedOnceWitness ==
    \E i, j \in Invs :
        /\ invs[i].parallel /\ invs[i].pc = "returned"
        /\ Cardinality(Owned(i)) >= 2
        /\ invs[j].from = i /\ ~invs[j].parallel
        /\ Owned(j) # {}

\* The handles activation i has reported, in output order.
Reported(i) ==
    LET r == SelectSeq(out, LAMBDA e : e.inv = i /\ e.t = "report")
    IN  [k \in 1..Len(r) |-> r[k].h]

\* The step writes no echo and no report.
QuietStep ==
    /\ Len(out') >= Len(out)
    /\ \A k \in (Len(out) + 1)..Len(out') : out'[k].t = "prompt"

\* The step starts no child and waits on none.
NoSpawnNoWait ==
    /\ Len(procs') = Len(procs)
    /\ \A h \in Handles : procs'[h].waits = procs[h].waits

\* Activation j has returned, having read its stream to the end or to an
\* exit line, with every child it spawned waited on.
Finished(j) ==
    /\ invs[j].pc = "returned"
    /\ invs[j].sawExit \/ invs[j].pos > Len(invs[j].is)
    /\ \A h \in Owned(j) : procs[h].waits = 1

\* Activation i reads a line or returns in the step.
Advances(i) ==
    \/ invs'[i].pos # invs[i].pos
    \/ invs[i].pc # "returned" /\ invs'[i].pc = "returned"

\* C5: an activation reads its next line (or returns) only when every
\* script it invoked through SERIAL or PARALLEL has consumed its stream and
\* returned with all of its own children waited on.
NestedIsSynchronous ==
    [][\A i \in Invs :
           Advances(i) => \A j \in Invs : invs[j].from = i => Finished(j)]_vars

\* A parallel script with two children returned and its caller then ran a
\* command of its own.
NestedIsSynchronousWitness ==
    \E i, j \in Invs :
        /\ invs[j].from = i /\ invs[j].parallel
        /\ Cardinality(Owned(j)) >= 2
        /\ \E h \in Owned(i) : \A g \in Owned(j) : g < h

\* The line activation i is about to read, if it is about to read one.
AtLine(i) == invs[i].pc = "read" /\ invs[i].pos <= Len(invs[i].is)
NextLine(i) == invs[i].is[invs[i].pos]

\* C6: a line equal to exit ends the loop of the activation reading it with
\* no spawn, echo, wait or call; that activation reads no later line; and a
\* parallel activation ended by exit still waits on and reports every child
\* collected so far, in spawn order.
ExitEndsLoop ==
    /\ [](\A i \in Invs :
             invs[i].sawExit =>
                 /\ invs[i].pc \in {"drain", "returned"}
                 /\ invs[i].parallel =>
                        /\ Len(Reported(i)) <= Len(invs[i].childList)
                        /\ \A k \in 1..Len(Reported(i)) :
                               Reported(i)[k] = invs[i].childList[k]
                        /\ Owned(i) = { invs[i].childList[k] :
                                            k \in 1..Len(invs[i].childList) }
                 /\ invs[i].pc = "returned" =>
                        /\ \A h \in Owned(i) : procs[h].waits = 1
                        /\ \A h \in Owned(i) : Cardinality(ReportAt(h)) = 1)
    /\ [][\A i \in Invs :
              /\ (i = top /\ status = "running" /\ AtLine(i)
                      /\ (IF AtLine(i) THEN NextLine(i) = EXIT ELSE FALSE)
                      /\ invs' # invs) =>
                     /\ invs'[i].sawExit /\ invs'[i].pc = "drain"
                     /\ invs'[i].childList = invs[i].childList
                     /\ Len(invs') = Len(invs) /\ stack' = stack
                     /\ NoSpawnNoWait /\ QuietStep
              /\ invs[i].sawExit =>
                     /\ invs'[i].sawExit
                     /\ invs'[i].pos = invs[i].pos
                     /\ invs'[i].childList = invs[i].childList]_vars

\* A parallel script ended by exit with a later line left unread, after
\* draining two children.
ExitEndsLoopWitness ==
    \E i \in Invs :
        /\ invs[i].parallel /\ invs[i].sawExit /\ invs[i].pc = "returned"
        /\ invs[i].pos <= Len(invs[i].is)
        /\ Len(invs[i].childList) >= 2

RECURSIVE Encloses(_, _)
\* Activation i is a proper ancestor of activation j in the call chain.
Encloses(i, j) ==
    IF invs[j].from = 0 THEN FALSE
    ELSE invs[j].from = i \/ Encloses(i, invs[j].from)

\* Activation i dispatches a line in the step: it spawns or calls a script.
Dispatches(i) ==
    /\ invs'[i].pos # invs[i].pos
    /\ Len(procs') > Len(procs) \/ Len(invs') > Len(invs)

\* C7 as stated: once an exit line has been read at any depth, no enclosing
\* activation dispatches a further line.
ExitEndsSession ==
    [][\A j \in Invs :
           invs[j].sawExit =>
               \A i \in Invs : Encloses(i, j) => ~Dispatches(i)]_vars

\* C7 amended: exit ends only the activation that read it.  Read from the
\* top-level input it ends the session: no line at any depth follows.  Read
\* from a nested script, that script returns and its caller goes on reading
\* its own next line, its own loop not ended.
ExitEndsOnlyItsScript ==
    [][/\ invs[1].sawExit =>
              /\ Len(invs') = Len(invs)
              /\ \A i \in Invs : invs'[i].pos = invs[i].pos
       /\ \A j \in Invs :
              (/\ invs[j].sawExit /\ invs[j].from # 0
               /\ invs[j].pc # "returned" /\ invs'[j].pc = "returned") =>
                  /\ status' = "running"
                  /\ invs'[invs[j].from].pc = "read"
                  /\ ~invs'[invs[j].from].sawExit
                  /\ invs'[invs[j].from].pos = invs[invs[j].from].pos]_vars

\* A nested script was ended by exit and its caller ran a later command.
ExitEndsOnlyItsScriptWitness ==
    \E i, j \in Invs :
        /\ invs[j].from = i /\ invs[j].sawExit /\ invs[j].pc = "returned"
        /\ Owned(j) # {}
        /\ \E h \in Owned(i) : \A g \in Owned(j) : g < h

\* C8: reading an empty line or a line starting with # spawns nothing,
\* echoes nothing, waits on nothing, calls no script and leaves childList as
\* it was, in serial and in parallel mode.
SkipsAreInert ==
    [][\A i \in Invs :
           (/\ i = top /\ status = "running" /\ AtLine(i)
            /\ (IF AtLine(i) THEN BlankOrComment(NextLine(i)) ELSE FALSE)
            /\ invs' # invs) =>
               /\ invs' = [invs EXCEPT ![i].pos = @ + 1]
               /\ stack' = stack /\ status' = status
               /\ NoSpawnNoWait /\ QuietStep]_vars

\* A parallel activation holding a child has passed a comment line, and a
\* serial one has passed an empty line.
SkipsAreInertWitness ==
    /\ \E i \in Invs :
           /\ invs[i].parallel /\ invs[i].pos = 3 /\ invs[i].pc = "read"
           /\ invs[i].is[2] = cmnt
           /\ Len(invs[i].childList) = 1
    /\ \E i \in Invs :
           /\ ~invs[i].parallel /\ invs[i].pos >= 2
           /\ invs[i].is[1] = blank

\* C9 as stated: whenever a line has passed the blank/comment filter and its
\* argument list is about to be inspected, split has returned at least one
\* word.
ArgListNonEmpty ==
    \A i \in Invs :
        (AtLine(i) /\ i = top /\ status = "running") =>
            LET l == NextLine(i)
            IN  (~BlankOrComment(l) /\ l # EXIT) => Len(split(l)) >= 1

\* C10 as stated: a malformed remote reference never ends the program; the
\* error stays inside the script line that met it.
BadReferenceIsLocal == status # "aborted"

\* Something written to the output that is neither a prompt, an echo nor an
\* exit-code report: a message to the user.
Diagnostic(e) == e.t \notin {"prompt", "echo", "report"}

\* The step of the running activation that handles its current line.
Dispatching(i) ==
    /\ i = top /\ status = "running" /\ AtLine(i)
    /\ invs' # invs \/ status' # status

\* A SERIAL or PARALLEL line with no second word.
VerbAlone(l) ==
    IF BlankOrComment(l) \/ l = EXIT THEN FALSE
    ELSE split(l) \in { <<SERIAL>>, <<PARALLEL>> }

\* C11 as stated: a SERIAL or PARALLEL line with no reference is checked and
\* reported: the step handling it writes a message, calls no script, does
\* not fault, and leaves the activation reading its next line.
MissingRefReported ==
    [][\A i \in Invs :
           (Dispatching(i) /\ VerbAlone(NextLine(i))) =>
               /\ status' = "running"
               /\ Len(invs') = Len(invs)
               /\ invs'[i].pc = "read" /\ invs'[i].pos = invs[i].pos + 1
               /\ \E k \in (Len(out) + 1)..Len(out') : Diagnostic(out'[k])]_vars

\* The line of the caller that started nested activation j, and its words.
CallLine(j)  == invs[invs[j].from].is[invs[j].at]
CallWords(j) == split(CallLine(j))

StartsWithHttp(ref) == Len(ref) >= Len(HTTP) /\ SubSeq(ref, 1, Len(HTTP)) = HTTP

\* Activation j was started by a line naming a local file that does not open.
MissingFile(j) ==
    IF invs[j].from = 0 THEN FALSE
    ELSE IF Len(CallWords(j)) < 2 THEN FALSE
    ELSE /\ ~StartsWithHttp(CallWords(j)[2])
         /\ CallWords(j)[2] \notin DOMAIN Files

\* C12: a SERIAL or PARALLEL line naming a local file that cannot be opened
\* runs an empty script: the nested activation reads no line, starts, waits
\* on and reports nothing, raises no error, and its caller goes on with its
\* next line, its childList as it was.
MissingFileIsEmptyScript ==
    /\ [](\A j \in Invs :
             MissingFile(j) =>
                 /\ invs[j].is = <<>> /\ invs[j].pos = 1 /\ ~invs[j].sawExit
                 /\ Owned(j) = {}
                 /\ \A k \in 1..Len(out) : out[k].inv # j
                 /\ invs[j].pc # "returned" => status = "running")
    /\ [][\A j \in Invs :
              (MissingFile(j) /\ invs[j].pc # "returned") =>
                  LET i == invs[j].from IN
                  /\ invs'[i].childList = invs[i].childList
                  /\ NoSpawnNoWait /\ out' = out
                  /\ status' = "running"
                  /\ invs'[j].pc = "returned" =>
                         /\ invs'[i].pc = "read"
                         /\ invs'[i].pos = invs[j].at + 1]_vars

\* A parallel script holding a child ran a line naming a missing file and
\* has gone on to a later line.
MissingFileIsEmptyScriptWitness ==
    \E j \in Invs :
        /\ MissingFile(j) /\ invs[j].pc = "returned"
        /\ invs[invs[j].from].parallel
        /\ Len(invs[invs[j].from].childList) = 1
        /\ invs[invs[j].from].pos > invs[j].at + 1

\* Activation j was started on the remote script urlOK and reads nothing,
\* though the server's answer has lines: the connection was not made.
ConnectFailed(j) ==
    IF invs[j].from = 0 THEN FALSE
    ELSE IF Len(CallWords(j)) < 2 THEN FALSE
    ELSE CallWords(j)[2] = urlOK /\ invs[j].is = <<>>

\* C13 as stated: a failed connection to the host of a remote script is
\* reported to the user, no command of that script is spawned, and the
\* calling script goes on with its next line.
ConnectFailureReported ==
    \A j \in Invs :
        ConnectFailed(j) =>
            /\ Owned(j) = {}
            /\ \E k \in 1..Len(out) : Diagnostic(out[k])
            /\ invs[j].pc = "returned" => invs[invs[j].from].pc # "call"

\* The first position of character c in sequence q, or 0.
FirstAt(q, c) ==
    IF \E k \in 1..Len(q) : q[k] = c
    THEN CHOOSE k \in 1..Len(q) : q[k] = c /\ \A m \in 1..(k - 1) : q[m] # c
    ELSE 0

\* What follows http:// in the URL given to breakDownURL.
UrlTail == SubSeq(input, Len(HTTP) + 1, Len(input))

\* C14 as stated: for a URL http://host[:port]/path, breakDownURL returns
\* as host the text between // and the first following : or /, as path all
\* from the path-starting / on, and as port the text between a : and the
\* path start only if that : comes before the path-starting /, else "80".
UrlDecomposed ==
    (result.done /\ FirstAt(UrlTail, "/") > 1) =>
        LET s    == FirstAt(UrlTail, "/")
            pre  == SubSeq(UrlTail, 1, s - 1)
            c    == FirstAt(pre, ":")
            host == IF c = 0 THEN pre ELSE SubSeq(pre, 1, c - 1)
            port == IF c = 0 THEN <<"8", "0">> ELSE SubSeq(pre, c + 1, Len(pre))
        IN  /\ result.val.ok
            /\ result.val.host = host
            /\ result.val.port = port
            /\ result.val.path = SubSeq(UrlTail, s, Len(UrlTail))

RECURSIVE Scan(_, _, _, _, _, _)
\* The words of line l read one character at a time.  Between words ("gap")
\* whitespace is passed over, a double quote opens a quoted run and any other
\* character opens a plain word; a plain word ends at whitespace; a quoted
\* run ends at a double quote, which is dropped.  With esc, a backslash in a
\* quoted run is dropped and the character after it is taken as it is.  A
\* quoted run still open at the end of the line gives no word.
Scan(l, k, mode, cur, acc, esc) ==
    IF k > Len(l)
    THEN IF mode = "word" THEN Append(acc, cur) ELSE acc
    ELSE LET c == l[k] IN
         CASE mode = "gap" ->
                  IF c = SP THEN Scan(l, k + 1, "gap", <<>>, acc, esc)
                  ELSE IF c = DQ THEN Scan(l, k + 1, "quoted", <<>>, acc, esc)
                  ELSE Scan(l, k + 1, "word", <<c>>, acc, esc)
           [] mode = "word" ->
                  IF c = SP THEN Scan(l, k + 1, "gap", <<>>, Append(acc, cur), esc)
                  ELSE Scan(l, k + 1, "word", Append(cur, c), acc, esc)
           [] mode = "quoted" ->
                  IF esc /\ c = BS THEN Scan(l, k + 1, "escaped", cur, acc, esc)
                  ELSE IF c = DQ
                       THEN Scan(l, k + 1, "gap", <<>>, Append(acc, cur), esc)
                  ELSE Scan(l, k + 1, "quoted", Append(cur, c), acc, esc)
           [] mode = "escaped" ->
                  Scan(l, k + 1, "quoted", Append(cur, c), acc, esc)

\* C15 as stated: split returns the words left to right, whitespace
\* separating them and a quoted run being one word without its quotes, and no
\* character is an escape: a backslash in a quoted run is kept and a quote
\* after it still ends the word.
SplitNoEscape ==
    result.done => result.val = Scan(input, 1, "gap", <<>>, <<>>, FALSE)

\* C15 amended: split returns the words left to right, whitespace separating
\* them and a word that starts with a double quote running to the next
\* unescaped double quote, as one word without its quotes even if it holds
\* whitespace; in such a run the backslash is an escape: it is dropped and
\* the character after it is kept, so a quote after a backslash does not end
\* the word; a quoted run never closed gives no word and ends the list.
SplitQuoting ==
    result.done => result.val = Scan(input, 1, "gap", <<>>, <<>>, TRUE)

\* split was given "\"" (quote, backslash, quote, quote) and returned the
\* one word made of a quote.
SplitQuotingWitness ==
    /\ result.done
    /\ input = <<DQ, BS, DQ, DQ>>
    /\ result.val = << <<DQ>> >>

\* The children of activation i that were spawned and not yet waited on.
Live(i) == { h \in Owned(i) : procs[h].waits = 0 }

\* C16: a serial activation has at most one child spawned and not yet waited
\* on, and it reads a line only when it has none.
SerialNoOverlap ==
    /\ [](\A i \in Invs : ~invs[i].parallel => Cardinality(Live(i)) <= 1)
    /\ [][\A i \in Invs :
              (~invs[i].parallel /\ invs'[i].pos # invs[i].pos) =>
                  Live(i) = {}]_vars

\* A serial activation has waited on its first command and its second one is
\* running.
SerialNoOverlapWitness ==
    \E i \in Invs :
        /\ ~invs[i].parallel
        /\ \E g, h \in Owned(i) :
               /\ g < h
               /\ procs[g].waits = 1
               /\ procs[h].waits = 0 /\ procs[h].state = "running"

\* The activations whose childList holds handle h.
Holders(h) ==
    { i \in Invs : \E k \in 1..Len(invs[i].childList) :
                       invs[i].childList[k] = h }

ModeFromVerb ==
    /\ [](\A j \in Invs :
             /\ invs[j].from # 0 =>
                    /\ invs[j].parallel = (CallWords(j)[1] = PARALLEL)
                    /\ ~invs[j].parallel = (CallWords(j)[1] = SERIAL)
             /\ \A h \in Owned(j) :
                    IF invs[j].parallel
                    THEN procs[h].waits > 0 =>
                             invs[j].pc \in {"drain", "returned"}
                    ELSE procs[h].waits = 0 =>
                             invs[j].pc = "wait" /\ invs[j].cp = h)
    /\ [][\A j \in Invs : invs'[j].parallel = invs[j].parallel]_vars

\* A parallel script called a script through SERIAL, which ran its commands
\* and returned; the command the parallel script ran next is not waited on
\* while the script reads on.
ModeFromVerbWitness ==
    \E i, j \in Invs :
        /\ invs[j].from = i /\ invs[i].parallel /\ ~invs[j].parallel
        /\ invs[j].pc = "returned" /\ Owned(j) # {}
        /\ invs[i].pc = "read"
        /\ \E h \in Owned(i) :
               /\ \A g \in Owned(j) : g < h
               /\ procs[h].waits = 0 /\ procs[h].state = "exited"

\* A composite-verb line that is not well-formed is about to be run: the
\* verb with no reference, or with an http:// reference that has no path.
MalformedVerbLine ==
    IF status = "running" /\ stack # <<>>
    THEN LET i == stack[Len(stack)] IN
         IF AtLine(i)
         THEN LET w == split(NextLine(i)) IN
              IF w # <<>> /\ NextLine(i) # EXIT /\ ~BlankOrComment(NextLine(i))
              THEN /\ w[1] \in {SERIAL, PARALLEL}
                   /\ IF Len(w) < 2 THEN TRUE
                      ELSE /\ StartsWithHttp(w[2])
                           /\ \A k \in (Len(HTTP) + 1)..Len(w[2]) :
                                  w[2][k] # "/"
              ELSE FALSE
         ELSE FALSE
    ELSE FALSE

\* The top-level activation has returned and every child was waited on and
\* its status reported.
AllDone ==
    /\ status = "returned"
    /\ \A h \in Handles : procs[h].waits >= 1 /\ ReportAt(h) # {}

\* C19: the streams being finite, the scripts not including each other in a
\* cycle and every child terminating, a run in which no malformed
\* composite-verb line is reached ends with the top-level activation
\* returned and every child waited on and reported.
ShellTerminates == <>(MalformedVerbLine \/ AllDone)

\* C20: reports are in spawn order only within one activation.  For a
\* parallel activation i and a script j called from it, every report of a
\* child of j is written before every report of a child of i, the children
\* i spawned before the call included, and no child of i is waited on
\* before j has returned.
ReportsFifoPerActivation ==
    \A i, j \in Invs :
        (invs[i].parallel /\ invs[j].from = i) =>
            /\ \A h \in Owned(i), g \in Owned(j) :
                   \A m \in ReportAt(h) :
                       /\ ReportAt(g) # {}
                       /\ \A n \in ReportAt(g) : n < m
            /\ invs[j].pc # "returned" =>
                   \A h \in Owned(i) : procs[h].waits = 0 /\ ReportAt(h) = {}

\* A parallel script spawned a command, then called a script that ran and
\* reported two commands, and has now reported its own first command.
ReportsFifoPerActivationWitness ==
    \E i, j \in Invs :
        /\ invs[i].parallel /\ invs[j].from = i
        /\ Cardinality(Owned(j)) >= 2
        /\ \E h \in Owned(i) :
               /\ \A g \in Owned(j) : h < g
               /\ ReportAt(h) # {}

====
